---- MODULE Spec2Model ----
(***************************************************************************)
(* Model of the recommendation page script (src/recommend.js).             *)
(*                                                                         *)
(* Strings are sequences of characters, so that toLowerCase, trim, split   *)
(* and includes are computed rather than assumed.  An optional field of a  *)
(* show is <<>> when the property is absent and <<v>> when it holds v.     *)
(* Arrays are objects of a heap (ref -> sequence of show ids): two names   *)
(* may denote the same array, and Array.prototype.sort works in place.     *)
(* A step is one task of the event loop: a listener, or the resumption of  *)
(* a suspended click handler, run up to its next await on the network.     *)
(*                                                                         *)
(* Left out: the failed load (alert and return, no listener is installed), *)
(* window._recommendSelectAI, updatedAt values that are not valid dates,   *)
(* and the markup showResult writes.                                       *)
(***************************************************************************)
EXTENDS Integers, Sequences, FiniteSets, TLC

VARIABLES
    showStore,          \* the show objects: id -> record
    loaded,             \* the content of allShows when the page was initialised
    heap,               \* the arrays: ref -> sequence of show ids
    filteredCandidates, \* ref of the module-level filteredCandidates array
    uniqueTags,         \* sorted sequence of normalized tags
    tagChecked,         \* tags whose checkbox (tagMap[tag]) is checked
    category,           \* value of #category
    status,             \* value of #status
    search,             \* value of #search
    aiToggle,           \* #ai-toggle.checked
    AI_CONFIG,          \* provider, key (hf_key holds a real key), maxCandidates,
                        \* maxPayloadBytes: fixed when the page is deployed
    pending,            \* click handlers suspended at an await
    btnDisabled,        \* recommendBtn.disabled
    resultHidden,       \* #result has class hidden
    noResultsHidden,    \* #no-results has class hidden
    displayed,          \* the show rendered in #result: <<>> or <<id>>
    applied,            \* applyFilters has run since the page was initialised
    last                \* what the click handler (or test hook) that ran in the
                        \* latest step did; idle after any other step

vars == <<showStore, loaded, heap, filteredCandidates, uniqueTags, tagChecked,
          category, status, search, aiToggle, AI_CONFIG, pending,
          btnDisabled, resultHidden, noResultsHidden, displayed, applied, last>>

(***************************************************************************)
(* Bounds of the model.                                                    *)
(***************************************************************************)
MaxFilterShows == 2     \* shows in a library of the filter specification
MaxSortShows == 3       \* shows in a library that varies only the timestamps
MaxInFlight == 2        \* click handlers the model lets be suspended at once
TunedMaxCandidates == 2       \* maxCandidates of the adjusted configuration
TunedMaxPayloadBytes == 210   \* maxPayloadBytes of the adjusted configuration

(***************************************************************************)
(* AI_CONFIG as shipped, and the two lengths selectWithAI has built in      *)
(***************************************************************************)
DefaultMaxCandidates == 20
DefaultMaxPayloadBytes == 8000
descriptionLimit == 150
promptHeaderBytes == 184

(***************************************************************************)
(* Characters and strings                                                  *)
(***************************************************************************)
None == <<>>
Some(v) == <<v>>

\* "E'" and "e'" stand for the two-byte letters U+00C9 and U+00E9.
Chars == {"a", "b", "x", "A", "B", "E'", "e'", " ", ",", ".",
          "0", "1", "2", "3", "4", "5", "6", "7", "8", "9"}

charCode(c) ==
    CASE c = " " -> 32 [] c = "," -> 44 [] c = "." -> 46
      [] c = "0" -> 48 [] c = "1" -> 49 [] c = "2" -> 50 [] c = "3" -> 51
      [] c = "4" -> 52 [] c = "5" -> 53 [] c = "6" -> 54 [] c = "7" -> 55
      [] c = "8" -> 56 [] c = "9" -> 57
      [] c = "A" -> 65 [] c = "B" -> 66
      [] c = "a" -> 97 [] c = "b" -> 98 [] c = "x" -> 120
      [] c = "E'" -> 201 [] c = "e'" -> 233

utf8Bytes(c) == IF charCode(c) < 128 THEN 1 ELSE 2

lowerChar(c) ==
    CASE c = "A" -> "a" [] c = "B" -> "b" [] c = "E'" -> "e'" [] OTHER -> c

toLowerCase(s) == [i \in 1..Len(s) |-> lowerChar(s[i])]

isSpace(c) == c = " "

RECURSIVE trimStart(_)
trimStart(s) ==
    IF s # <<>> /\ isSpace(Head(s)) THEN trimStart(Tail(s)) ELSE s

RECURSIVE trimEnd(_)
trimEnd(s) ==
    IF s # <<>> /\ isSpace(s[Len(s)]) THEN trimEnd(SubSeq(s, 1, Len(s) - 1)) ELSE s

trim(s) == trimEnd(trimStart(s))

\* s.split(','): the pieces between the commas, at least one piece.
RECURSIVE split(_)
split(s) ==
    IF \E i \in 1..Len(s) : s[i] = ","
    THEN LET i == CHOOSE k \in 1..Len(s) :
                     s[k] = "," /\ \A j \in 1..(k - 1) : s[j] # ","
         IN  <<SubSeq(s, 1, i - 1)>> \o split(SubSeq(s, i + 1, Len(s)))
    ELSE <<s>>

\* hay.includes(needle)
includes(hay, needle) ==
    \E i \in 1..(Len(hay) - Len(needle) + 1) :
        SubSeq(hay, i, i + Len(needle) - 1) = needle

\* the UTF-8 length of s[lo..hi]
RECURSIVE bytesBetween(_, _, _)
bytesBetween(s, lo, hi) ==
    IF lo > hi THEN 0
    ELSE IF lo = hi THEN utf8Bytes(s[lo])
    ELSE LET mid == (lo + hi) \div 2
         IN  bytesBetween(s, lo, mid) + bytesBetween(s, mid + 1, hi)

\* new Blob([s]).size
blobSize(s) == bytesBetween(s, 1, Len(s))

\* JavaScript truthiness of an optional string property
truthy(o) == o # None /\ o[1] # <<>>

\* a < b in the order of Array.prototype.sort() without a comparator
RECURSIVE codeUnitLess(_, _)
codeUnitLess(a, b) ==
    IF b = <<>> THEN FALSE
    ELSE IF a = <<>> THEN TRUE
    ELSE IF charCode(Head(a)) < charCode(Head(b)) THEN TRUE
    ELSE IF charCode(Head(a)) > charCode(Head(b)) THEN FALSE
    ELSE codeUnitLess(Tail(a), Tail(b))

RECURSIVE sortedStrings(_)
sortedStrings(S) ==
    IF S = {} THEN <<>>
    ELSE LET m == CHOOSE x \in S : \A y \in S \ {x} : codeUnitLess(x, y)
         IN  <<m>> \o sortedStrings(S \ {m})

Range(f) == {f[i] : i \in DOMAIN f}

(***************************************************************************)
(* Shows                                                                   *)
(***************************************************************************)
NoTags == [kind |-> "none", v |-> <<>>]
StrTags(s) == [kind |-> "str", v |-> s]
ArrTags(a) == [kind |-> "arr", v |-> a]

Show(title, type, st, tags, description, notes, updatedAt) ==
    [title |-> title, type |-> type, status |-> st, tags |-> tags,
     description |-> description, notes |-> notes, overview |-> None,
     updatedAt |-> updatedAt]

allShowsRef == 0

allShows == heap[allShowsRef]

\* extractUniqueTags: the tags one show adds to tagSet
tagSetOf(show) ==
    IF show.tags.kind = "arr"
    THEN {toLowerCase(trim(t)) : t \in Range(show.tags.v)}
    ELSE IF show.tags.kind = "str" /\ show.tags.v # <<>>
    THEN {toLowerCase(trim(t)) : t \in Range(split(show.tags.v))}
    ELSE {}

extractUniqueTags(store, ids) ==
    sortedStrings(UNION {tagSetOf(store[ids[i]]) : i \in DOMAIN ids})

(***************************************************************************)
(* applyFilters                                                            *)
(***************************************************************************)
selectedTags(checked) == SelectSeq(uniqueTags, LAMBDA t : t \in checked)

\* showTags as the filter callback computes it
showTags(show) ==
    IF show.tags.kind = "arr"
    THEN [i \in 1..Len(show.tags.v) |-> toLowerCase(trim(show.tags.v[i]))]
    ELSE IF show.tags.kind = "str" /\ show.tags.v # <<>>
    THEN LET parts == split(show.tags.v)
         IN  [i \in 1..Len(parts) |-> toLowerCase(trim(parts[i]))]
    ELSE <<>>

hasAnyTag(show, sel) ==
    \E i \in 1..Len(sel) : sel[i] \in Range(showTags(show))

hasAllTags(show, sel) ==
    \A i \in 1..Len(sel) : sel[i] \in Range(showTags(show))

inField(o, searchQuery) == truthy(o) /\ includes(toLowerCase(o[1]), searchQuery)

\* the callback of allShows.filter
passesFilter(show, cat, st, searchQuery, sel) ==
    IF cat # "all" /\ show.type # cat THEN FALSE
    ELSE IF st # "all" /\ show.status # st THEN FALSE
    ELSE IF Len(sel) > 0 /\ ~hasAllTags(show, sel) THEN FALSE
    ELSE IF searchQuery # <<>>
            /\ ~inField(show.title, searchQuery)
            /\ ~inField(show.description, searchQuery)
            /\ ~inField(show.notes, searchQuery) THEN FALSE
    ELSE TRUE

\* new Date(show.updatedAt || 0), in milliseconds
dateOf(show) ==
    IF show.updatedAt # None /\ show.updatedAt[1] # 0 THEN show.updatedAt[1] ELSE 0

\* the comparator of filteredCandidates.sort
compareRecent(a, b) == dateOf(showStore[b]) - dateOf(showStore[a])

\* Array.prototype.sort is stable: x goes behind every element it does not
\* have to precede.
RECURSIVE insertSorted(_, _)
insertSorted(sorted, x) ==
    IF sorted = <<>> THEN <<x>>
    ELSE IF compareRecent(x, sorted[Len(sorted)]) >= 0 THEN Append(sorted, x)
    ELSE Append(insertSorted(SubSeq(sorted, 1, Len(sorted) - 1), x),
                sorted[Len(sorted)])

RECURSIVE sortRecent(_)
sortRecent(ids) ==
    IF ids = <<>> THEN <<>>
    ELSE insertSorted(sortRecent(SubSeq(ids, 1, Len(ids) - 1)), ids[Len(ids)])

\* arrays the running code can still reach besides filteredCandidates
pendingRefs == {pending[i].candidates : i \in DOMAIN pending}

heldRefs == {allShowsRef} \cup pendingRefs

aliasAllShows(held) == allShowsRef

reuseFilteredCandidates(held) == filteredCandidates

\* Array.prototype.filter returns a new array
newArray(held) ==
    CHOOSE r \in 0..Cardinality(held) :
        r \notin held /\ \A q \in 0..(r - 1) : q \in held

\* the heap after garbage collection
collect(h, roots) == [r \in roots |-> h[r]]

\* applyFilters(): the ref of the array it returns and the heap it leaves
applyFilters(cat, st, srch, checked) ==
    LET searchQuery == toLowerCase(srch)
        sel         == selectedTags(checked)
        r           == newArray(heldRefs)
        kept        == SelectSeq(heap[allShowsRef],
                           LAMBDA id : passesFilter(showStore[id], cat, st,
                                                    searchQuery, sel))
        heap1       == (r :> kept) @@ heap
        heap2       == [heap1 EXCEPT ![r] = sortRecent(heap1[r])]
    IN  [ref |-> r, heap |-> heap2]

(***************************************************************************)
(* selectRandom, selectWithAI, showResult                                  *)
(***************************************************************************)
\* selectRandom(candidates): every value Math.random() can make it return
selectRandom(cands) ==
    IF Len(cands) = 0 THEN {None} ELSE {Some(cands[i]) : i \in 1..Len(cands)}

Min(a, b) == IF a < b THEN a ELSE b

\* candidates.slice(0, AI_CONFIG.maxCandidates)
limitedCandidates(cands) == SubSeq(cands, 1, Min(Len(cands), AI_CONFIG.maxCandidates))

\* show.description || show.notes || show.overview || ''
descriptionOf(show) ==
    IF truthy(show.description) THEN show.description[1]
    ELSE IF truthy(show.notes) THEN show.notes[1]
    ELSE IF truthy(show.overview) THEN show.overview[1]
    ELSE <<>>

shortDescription(show) ==
    LET description == descriptionOf(show)
    IN  IF Len(description) > descriptionLimit
        THEN SubSeq(description, 1, descriptionLimit) \o <<".", ".", ".">>
        ELSE description

\* the length of String(n)
decimalLen(n) == IF n < 10 THEN 1 ELSE IF n < 100 THEN 2 ELSE 3

\* bytes of `${index + 1}. ${show.title}: ${shortDescription}\n`; an absent
\* title is rendered as the nine letters of "undefined"
lineBytes(n, show) ==
    decimalLen(n) + 2
    + (IF show.title = None THEN 9 ELSE blobSize(show.title[1]))
    + 2 + blobSize(shortDescription(show)) + 1

RECURSIVE linesBytes(_, _)
linesBytes(limited, n) ==
    IF n = 0 THEN 0
    ELSE linesBytes(limited, n - 1) + lineBytes(n, showStore[limited[n]])

\* new Blob([prompt]).size
promptBytes(limited) == promptHeaderBytes + linesBytes(limited, Len(limited))

payloadCheckMissing(bytes) == FALSE

payloadTooLarge(bytes) == bytes > AI_CONFIG.maxPayloadBytes

\* how far selectWithAI gets before its first await
aiStart(cands) ==
    IF payloadTooLarge(promptBytes(limitedCandidates(cands))) THEN "too_large"
    ELSE IF AI_CONFIG.provider = "hf"
         THEN IF ~AI_CONFIG.key THEN "no_key" ELSE "fetch"
         ELSE "unsupported"

aiCatchRethrows(cands) == [thrown |-> TRUE, picks |-> {}]

\* the catch block of selectWithAI
aiCatch(cands) == [thrown |-> FALSE, picks |-> selectRandom(cands)]

\* the fall-through of selectWithAI ("AI selection failed")
aiFallback(cands) == [thrown |-> FALSE, picks |-> selectRandom(cands)]

searchedLimited(cands) == limitedCandidates(cands)

\* the list candidates.find runs over
searchedList(cands) == cands

\* candidates.find(show => show.title.toLowerCase() === title.toLowerCase());
\* reading toLowerCase of an absent title throws
RECURSIVE findByTitle(_, _)
findByTitle(ids, title) ==
    IF ids = <<>> THEN [thrown |-> FALSE, found |-> None]
    ELSE IF showStore[Head(ids)].title = None
         THEN [thrown |-> TRUE, found |-> None]
    ELSE IF toLowerCase(showStore[Head(ids)].title[1]) = toLowerCase(title)
         THEN [thrown |-> FALSE, found |-> Some(Head(ids))]
    ELSE findByTitle(Tail(ids), title)

\* selectWithAI after fetchHuggingFace has returned result; title is
\* result.title, None when result has no truthy title
aiMatch(cands, title) ==
    IF title = None \/ title[1] = <<>> THEN aiFallback(cands)
    ELSE LET f == findByTitle(searchedList(cands), title[1])
         IN  IF f.thrown THEN aiCatch(cands)
             ELSE IF f.found # None THEN [thrown |-> FALSE, picks |-> {f.found}]
             ELSE aiFallback(cands)

aiMatchOutcome(cands, title) ==
    IF title = None \/ title[1] = <<>> THEN "no_title"
    ELSE LET f == findByTitle(searchedList(cands), title[1])
         IN  IF f.thrown THEN "error" ELSE IF f.found # None THEN "ai_pick"
             ELSE "unmatched"

\* showResult(show)
showResult(pick) ==
    IF pick = None
    THEN /\ resultHidden' = TRUE
         /\ noResultsHidden' = FALSE
         /\ UNCHANGED displayed
    ELSE /\ displayed' = pick
         /\ resultHidden' = FALSE
         /\ noResultsHidden' = TRUE

idle == [outcome |-> "idle", candidates |-> <<>>, fetched |-> FALSE,
         promptBytes |-> 0, suggestion |-> None, result |-> None,
         handlerCatch |-> FALSE]

\* the click handler from the point where the selection sel is known:
\* showResult, the catch block when the selection threw, and finally
finish(cands, sel, log) ==
    /\ IF sel.thrown
       THEN \E p \in selectRandom(cands) :
                /\ showResult(p)
                /\ last' = [log EXCEPT !.result = p, !.handlerCatch = TRUE]
       ELSE \E p \in sel.picks :
                /\ showResult(p)
                /\ last' = [log EXCEPT !.result = p]
    /\ btnDisabled' = FALSE

(***************************************************************************)
(* Show libraries: the collections the page may be loaded with             *)
(***************************************************************************)
\* the option values of #category and #status the model offers
Categories == {"all", "movie"}
Statuses == {"all", "completed"}
SearchInputs == {<<>>, <<"a", "B">>, <<" ", "a">>}

TagForms ==
    { NoTags,
      StrTags(<<"a", ",", " ", "B">>),
      ArrTags(<< <<" ", "A", " ">> >>),
      StrTags(<<"b", ",">>) }

\* title, description, notes, type and status of the shows of the filter pool
KindForms ==
    { [title |-> Some(<<"A", "b">>), description |-> None,
       notes |-> Some(<<"B", " ", "a">>), type |-> "movie",
       status |-> "watching"],
      [title |-> Some(<<"A", "b">>), description |-> None,
       notes |-> Some(<<"B", " ", "a">>), type |-> "movie",
       status |-> "completed"],
      [title |-> Some(<<"b", "a">>), description |-> Some(<<>>),
       notes |-> None, type |-> "series", status |-> "completed"] }

FilterPool ==
    { Show(k.title, k.type, k.status, tg, k.description, k.notes, None) :
        k \in KindForms, tg \in TagForms }

Timestamps == {None, Some(-1), Some(0), Some(1), Some(2)}

SortPool ==
    { Show(Some(<<"a">>), "movie", "watching", NoTags, None, None, ts) :
        ts \in Timestamps }

FilterLibs ==
    UNION {[1..n -> FilterPool] : n \in 1..MaxFilterShows}
    \cup UNION {[1..n -> SortPool] : n \in 2..MaxSortShows}

\* three titled shows, two of the titles equal up to case, both tag forms
SmallLib ==
    <<Show(Some(<<"A", "b">>), "movie", "watching",
           StrTags(<<" ", "A">>), Some(<<"B", " ", "a", ".">>),
           None, Some(1)),
      Show(Some(<<"a", "B">>), "series", "completed",
           ArrTags(<< <<" ", "A", " ">> >>), None, Some(<<"E'", "b">>),
           Some(2)),
      Show(Some(<<"b", "a">>), "movie", "completed", NoTags, None,
           Some(<<"b", " ", "a", " ", "b", " ", "a", ".">>), None)>>

\* a show without a title whose overview is longer than descriptionLimit
LongLib ==
    <<[Show(None, "series", "watching", NoTags, Some(<<>>), None, Some(-1))
         EXCEPT !.overview = Some([i \in 1..(descriptionLimit + 1) |-> "e'"])],
      Show(Some(<<"b">>), "movie", "completed", NoTags, None, None, None)>>

PageLibs == {SmallLib, LongLib}

ShippedConfig ==
    [provider |-> "hf", key |-> FALSE,
     maxCandidates |-> DefaultMaxCandidates,
     maxPayloadBytes |-> DefaultMaxPayloadBytes]

\* the configurations of the header comment: a key added, the limits adjusted
Configs ==
    { ShippedConfig,
      [ShippedConfig EXCEPT !.key = TRUE],
      [ShippedConfig EXCEPT !.key = TRUE, !.provider = "other"],
      [ShippedConfig EXCEPT !.key = TRUE,
                            !.maxCandidates = TunedMaxCandidates,
                            !.maxPayloadBytes = TunedMaxPayloadBytes] }

(***************************************************************************)
(* The state after initRecommendationPage                                  *)
(***************************************************************************)
InitWith(libs, cfgs) ==
    /\ showStore \in libs
    /\ loaded = [i \in DOMAIN showStore |-> i]
    /\ heap = (allShowsRef :> loaded) @@ (1 :> <<>>)
    /\ filteredCandidates = 1
    /\ uniqueTags = extractUniqueTags(showStore, loaded)
    /\ tagChecked = {}
    /\ category = "all"
    /\ status = "all"
    /\ search = <<>>
    /\ aiToggle = FALSE
    /\ AI_CONFIG \in cfgs
    /\ pending = <<>>
    /\ btnDisabled = FALSE
    /\ resultHidden = TRUE
    /\ noResultsHidden = TRUE
    /\ displayed = None
    /\ applied = FALSE
    /\ last = idle

Init == InitWith(PageLibs, Configs)

FilterInit == InitWith(FilterLibs, {ShippedConfig})

(***************************************************************************)
(* Filter events: every listener runs applyFilters                         *)
(***************************************************************************)
FilterEvent(cat, st, srch, checked) ==
    LET af == applyFilters(cat, st, srch, checked)
    IN  /\ category' = cat
        /\ status' = st
        /\ search' = srch
        /\ tagChecked' = checked
        /\ filteredCandidates' = af.ref
        /\ heap' = collect(af.heap, {allShowsRef, af.ref} \cup pendingRefs)
        /\ applied' = TRUE
        /\ last' = idle
        /\ UNCHANGED <<showStore, loaded, uniqueTags, aiToggle, AI_CONFIG, pending, btnDisabled, resultHidden,
                       noResultsHidden, displayed>>

ChangeCategory ==
    \E c \in Categories \ {category} : FilterEvent(c, status, search, tagChecked)

ChangeStatus ==
    \E st \in Statuses \ {status} : FilterEvent(category, st, search, tagChecked)

InputSearch ==
    \E q \in SearchInputs \ {search} : FilterEvent(category, status, q, tagChecked)

ToggleTag ==
    \E t \in Range(uniqueTags) :
        FilterEvent(category, status, search,
                    IF t \in tagChecked THEN tagChecked \ {t}
                    ELSE tagChecked \cup {t})

ClearFilters == FilterEvent("all", "all", <<>>, {})

ToggleAI ==
    /\ aiToggle' = ~aiToggle
    /\ last' = idle
    /\ UNCHANGED <<showStore, loaded, heap, filteredCandidates, uniqueTags,
                   tagChecked, category, status, search, AI_CONFIG,
                   pending, btnDisabled, resultHidden, noResultsHidden,
                   displayed, applied>>

(***************************************************************************)
(* The click handler of the recommend button                               *)
(***************************************************************************)
\* a disabled button dispatches no click event
clickAccepted == ~btnDisabled /\ Len(pending) < MaxInFlight

neverEmpty(cands) == FALSE

\* candidates.length === 0
isEmptyList(cands) == Len(cands) = 0

loadingLeavesEnabled == FALSE

\* recommendBtn.disabled while the selection runs
loadingDisables == TRUE

\* the part every run of the handler shares: applyFilters() at its start
Clicked(af, pend) ==
    /\ filteredCandidates' = af.ref
    /\ heap' = collect(af.heap, {allShowsRef, af.ref}
                                \cup {pend[i].candidates : i \in DOMAIN pend})
    /\ pending' = pend
    /\ applied' = TRUE
    /\ UNCHANGED <<showStore, loaded, uniqueTags, tagChecked, category, status,
                   search, aiToggle, AI_CONFIG>>

RecommendEmpty ==
    LET af    == applyFilters(category, status, search, tagChecked)
        cands == af.heap[af.ref]
    IN  /\ clickAccepted
        /\ isEmptyList(cands)
        /\ showResult(None)
        /\ last' = [idle EXCEPT !.outcome = "empty"]
        /\ UNCHANGED btnDisabled
        /\ Clicked(af, pending)

RecommendRandom ==
    LET af    == applyFilters(category, status, search, tagChecked)
        cands == af.heap[af.ref]
    IN  /\ clickAccepted
        /\ ~isEmptyList(cands)
        /\ ~aiToggle
        /\ finish(cands, [thrown |-> FALSE, picks |-> selectRandom(cands)],
                  [idle EXCEPT !.outcome = "random", !.candidates = cands])
        /\ Clicked(af, pending)

\* selectWithAI returns before any await
RecommendAISync ==
    LET af    == applyFilters(category, status, search, tagChecked)
        cands == af.heap[af.ref]
        start == aiStart(cands)
        log   == [idle EXCEPT !.outcome = start, !.candidates = cands,
                      !.promptBytes = promptBytes(limitedCandidates(cands))]
    IN  /\ clickAccepted
        /\ ~isEmptyList(cands)
        /\ aiToggle
        /\ start # "fetch"
        /\ finish(cands,
                  IF start = "too_large" THEN aiFallback(cands)
                  ELSE aiCatch(cands),
                  log)
        /\ Clicked(af, pending)

\* selectWithAI suspends in fetchHuggingFace, at await fetch(...)
RecommendAIFetch ==
    LET af    == applyFilters(category, status, search, tagChecked)
        cands == af.heap[af.ref]
        h     == [candidates |-> af.ref, stage |-> "headers", timer |-> TRUE,
                  clicked |-> cands,
                  promptBytes |-> promptBytes(limitedCandidates(cands))]
    IN  /\ clickAccepted
        /\ ~isEmptyList(cands)
        /\ aiToggle
        /\ aiStart(cands) = "fetch"
        /\ btnDisabled' = loadingDisables
        /\ last' = idle
        /\ UNCHANGED <<resultHidden, noResultsHidden, displayed>>
        /\ Clicked(af, Append(pending, h))

\* window._recommendSelectRandom(): applyFilters, then selectRandom
HookSelectRandom ==
    LET af    == applyFilters(category, status, search, tagChecked)
        cands == af.heap[af.ref]
    IN  /\ \E p \in selectRandom(cands) :
               last' = [idle EXCEPT !.outcome = "hook_random",
                            !.candidates = cands, !.result = p]
        /\ UNCHANGED <<btnDisabled, resultHidden, noResultsHidden, displayed>>
        /\ Clicked(af, pending)

(***************************************************************************)
(* The text-generation service and the abort timer                         *)
(***************************************************************************)
without(seq, i) == SubSeq(seq, 1, i - 1) \o SubSeq(seq, i + 1, Len(seq))

\* the suspended handler i runs to its end with the selection sel
Resume(i, sel, outcome, suggestion) ==
    LET h    == pending[i]
        rest == without(pending, i)
    IN  /\ finish(heap[h.candidates], sel,
                  [idle EXCEPT !.outcome = outcome, !.candidates = h.clicked,
                       !.fetched = TRUE, !.promptBytes = h.promptBytes,
                       !.suggestion = suggestion])
        /\ pending' = rest
        /\ heap' = collect(heap, {allShowsRef, filteredCandidates}
                                 \cup {rest[j].candidates : j \in DOMAIN rest})
        /\ UNCHANGED <<showStore, loaded, filteredCandidates, uniqueTags,
                       tagChecked, category, status, search, aiToggle, AI_CONFIG, applied>>

\* fetch rejects: no connection
FetchRejects ==
    \E i \in DOMAIN pending :
        /\ pending[i].stage = "headers"
        /\ Resume(i, aiCatch(heap[pending[i].candidates]), "network_error", None)

\* setTimeout(() => controller.abort(), timeoutMs) fires
TimerFires ==
    \E i \in DOMAIN pending :
        /\ pending[i].timer
        /\ Resume(i, aiCatch(heap[pending[i].candidates]), "timeout", None)

\* fetch resolves with response.ok; clearTimeout, then await response.json()
HeadersArrive ==
    \E i \in DOMAIN pending :
        /\ pending[i].stage = "headers"
        /\ pending' = [pending EXCEPT ![i].stage = "body", ![i].timer = FALSE]
        /\ last' = idle
        /\ UNCHANGED <<showStore, loaded, heap, filteredCandidates, uniqueTags,
                       tagChecked, category, status, search, aiToggle, AI_CONFIG, btnDisabled, resultHidden, noResultsHidden,
                       displayed, applied>>

\* fetch resolves with !response.ok
HttpError ==
    \E i \in DOMAIN pending :
        /\ pending[i].stage = "headers"
        /\ Resume(i, aiCatch(heap[pending[i].candidates]), "http_error", None)

\* response.json() rejects
BodyUnreadable ==
    \E i \in DOMAIN pending :
        /\ pending[i].stage = "body"
        /\ Resume(i, aiCatch(heap[pending[i].candidates]), "bad_body", None)

\* no {...} in generated_text, or JSON.parse of it throws
BodyWithoutJson ==
    \E i \in DOMAIN pending :
        /\ pending[i].stage = "body"
        /\ Resume(i, aiCatch(heap[pending[i].candidates]), "no_json", None)

\* titles the service may answer with
suggestedTitles ==
    LET titles == {showStore[id].title[1] :
                     id \in {j \in DOMAIN showStore : showStore[j].title # None}}
    IN  {None, Some(<<"x", "x">>)}
        \cup {Some(t) : t \in titles} \cup {Some(toLowerCase(t)) : t \in titles}

\* fetchHuggingFace returns the parsed object
BodyWithJson ==
    \E i \in DOMAIN pending, title \in suggestedTitles :
        /\ pending[i].stage = "body"
        /\ Resume(i, aiMatch(heap[pending[i].candidates], title),
                  aiMatchOutcome(heap[pending[i].candidates], title), title)

FilterNext ==
    \/ ChangeCategory
    \/ ChangeStatus
    \/ InputSearch
    \/ ToggleTag
    \/ ClearFilters

Next ==
    \/ ChangeCategory
    \/ ChangeStatus
    \/ InputSearch
    \/ ToggleTag
    \/ ClearFilters
    \/ ToggleAI
    \/ RecommendEmpty
    \/ RecommendRandom
    \/ RecommendAISync
    \/ RecommendAIFetch
    \/ HookSelectRandom
    \/ FetchRejects
    \/ TimerFires
    \/ HeadersArrive
    \/ HttpError
    \/ BodyUnreadable
    \/ BodyWithoutJson
    \/ BodyWithJson

Spec == Init /\ [][Next]_vars

FilterSpec == FilterInit /\ [][FilterNext]_vars

(***************************************************************************)
(* Properties                                                              *)
(***************************************************************************)
candidatesNow == heap[filteredCandidates]

substringIgnoringCase(needle, hay) ==
    \E k \in 0..(Len(hay) - Len(needle)) :
        \A j \in 1..Len(needle) : lowerChar(hay[k + j]) = lowerChar(needle[j])

satisfiesFilters(show) ==
    /\ category = "all" \/ category = show.type
    /\ status = "all" \/ status = show.status
    /\ tagChecked \subseteq tagSetOf(show)
    /\ \/ search = <<>>
       \/ \E o \in {show.title, show.description, show.notes} :
              o # None /\ substringIgnoringCase(search, o[1])

\* C1: after applyFilters the candidate list holds exactly the shows that
\* satisfy the category, status, tag and search predicates, each once.
C1_FilterIsConjunction ==
    applied =>
        /\ \A id \in DOMAIN showStore :
               (id \in Range(candidatesNow)) <=> satisfiesFilters(showStore[id])
        /\ \A i, j \in DOMAIN candidatesNow :
               i # j => candidatesNow[i] # candidatesNow[j]

C1_Witness ==
    /\ applied
    /\ category # "all" /\ status # "all" /\ search # <<>> /\ tagChecked # {}
    /\ candidatesNow # <<>>
    /\ Len(candidatesNow) < Len(allShows)

\* C2: the candidate list is non-increasing in updatedAt and no show without
\* updatedAt stands before a show that has one.
C2_SortedMissingLast ==
    applied =>
        \A i, j \in DOMAIN candidatesNow :
            i < j =>
                LET a == showStore[candidatesNow[i]].updatedAt
                    b == showStore[candidatesNow[j]].updatedAt
                IN  /\ (a # None /\ b # None) => a[1] >= b[1]
                    /\ ~(a = None /\ b # None)

aiFailures ==
    {"no_key", "unsupported", "network_error", "timeout", "http_error",
     "bad_body", "no_json", "no_title", "unmatched", "error"}

\* C3: when the assisted selection fails, selectWithAI resolves to a member of
\* the candidate list, the handler's own catch block is not needed, and the
\* result card is shown.
C3_AIFailureFallsBack ==
    last.outcome \in aiFailures =>
        /\ ~last.handlerCatch
        /\ last.result # None
        /\ last.result[1] \in Range(last.candidates)
        /\ displayed = last.result
        /\ ~resultHidden
        /\ noResultsHidden

C3_Witness ==
    /\ last.outcome = "timeout"
    /\ Len(last.candidates) > 1
    /\ displayed = last.result
    /\ last.result # Some(last.candidates[1])

\* C4: as long as a text-generation call is outstanding, its abort timer is
\* armed.
C4_TimerCoversWholeCall ==
    \A i \in DOMAIN pending : pending[i].timer

\* C5: a prompt larger than maxPayloadBytes is never sent; the selection
\* is then a random pick from the candidate list.
C5_NoFetchWhenTooLarge ==
    /\ \A i \in DOMAIN pending :
           pending[i].promptBytes <= AI_CONFIG.maxPayloadBytes
    /\ last.promptBytes > AI_CONFIG.maxPayloadBytes =>
           /\ ~last.fetched
           /\ last.outcome = "too_large"
           /\ last.result # None
           /\ last.result[1] \in Range(last.candidates)

C5_Witness ==
    /\ last.outcome = "too_large"
    /\ last.promptBytes > AI_CONFIG.maxPayloadBytes
    /\ AI_CONFIG.key
    /\ displayed = last.result

\* C6 as claimed: while a request started by a click is outstanding, the
\* button still accepts a click.
C6_ClickAcceptedWhileOutstanding ==
    pending # <<>> => ~btnDisabled

\* C6 as amended: while a request started by a click is outstanding the button
\* is disabled, and at most one selection from the button is in flight.
C6_OneSelectionInFlight ==
    /\ Len(pending) <= 1
    /\ pending # <<>> => btnDisabled

C6_Witness ==
    /\ Len(pending) = 1
    /\ pending[1].stage = "body"
    /\ btnDisabled

\* C7: no step changes the allShows array or a show record.
C7_ShowsNeverMutated ==
    [][allShows' = allShows /\ allShows = loaded /\ showStore' = showStore]_vars

C7_Witness ==
    /\ applied
    /\ displayed # None
    /\ Len(candidatesNow) = Len(allShows)
    /\ candidatesNow # allShows
    /\ allShows = loaded

\* C8: selectRandom returns nothing for an empty list and a member otherwise;
\* a click with no candidates shows the empty state, hides the result, sends
\* nothing and leaves the button enabled.
C8_EmptyCandidates ==
    /\ last.outcome = "hook_random" =>
           IF last.candidates = <<>> THEN last.result = None
           ELSE last.result # None /\ last.result[1] \in Range(last.candidates)
    /\ last.outcome = "empty" =>
           resultHidden /\ ~noResultsHidden /\ ~btnDisabled /\ ~last.fetched
    /\ (last.outcome \notin {"idle", "hook_random"} /\ last.candidates = <<>>) =>
           last.outcome = "empty"
    /\ \A i \in DOMAIN pending : pending[i].clicked # <<>>

C8_Witness ==
    /\ last.outcome = "empty"
    /\ aiToggle
    /\ AI_CONFIG.key
    /\ displayed # None
    /\ resultHidden

limitedAtClick ==
    SubSeq(last.candidates, 1,
           Min(Len(last.candidates), AI_CONFIG.maxCandidates))

\* C9 as claimed: an accepted suggestion is one of the candidates that the
\* prompt enumerated.
C9_PickWasEnumerated ==
    last.outcome = "ai_pick" => last.result[1] \in Range(limitedAtClick)

titleMatches ==
    {i \in DOMAIN last.candidates :
        /\ showStore[last.candidates[i]].title # None
        /\ toLowerCase(showStore[last.candidates[i]].title[1])
               = toLowerCase(last.suggestion[1])}

untitledBefore(n) ==
    \E i \in 1..(n - 1) : showStore[last.candidates[i]].title = None

\* C9 as amended: a suggestion is accepted exactly when its title equals,
\* ignoring case, the title of some candidate of the full list that no
\* untitled candidate precedes; the pick is the first such candidate, whether
\* or not the prompt enumerated it.
C9_PickIsFirstMatchOfFullList ==
    (last.fetched /\ truthy(last.suggestion)) =>
        /\ last.outcome = "ai_pick" =>
               /\ titleMatches # {}
               /\ \E m \in titleMatches :
                      /\ \A k \in titleMatches : m <= k
                      /\ last.result = Some(last.candidates[m])
        /\ (\E m \in titleMatches : ~untitledBefore(m)) =>
               last.outcome = "ai_pick"

C9_Witness ==
    /\ last.outcome = "ai_pick"
    /\ last.result[1] \notin Range(limitedAtClick)
    /\ displayed = last.result

\* C10: the list a suspended selection works on stays the list applyFilters
\* computed at the click, and the show displayed at the end is one of it.
C10_ClickTimeCandidates ==
    /\ \A i \in DOMAIN pending :
           heap[pending[i].candidates] = pending[i].clicked
    /\ last.fetched =>
           /\ last.result # None
           /\ last.result[1] \in Range(last.candidates)
           /\ displayed = last.result

C10_Witness ==
    /\ last.fetched
    /\ last.result # None
    /\ displayed = last.result
    /\ last.candidates # candidatesNow
    /\ last.result[1] \notin Range(candidatesNow)

====
